---- MODULE Spec2Model ----
(***************************************************************************)
(* Variable resolution (evaluator/variable.go) and the detection engine    *)
(* of tflint.                                                              *)
(*                                                                         *)
(* A decoded HCL value (Go interface{}) is a record tagged with its        *)
(* reflect.Kind; a hil/ast.Variable is a record [Type, Value].  A Go panic *)
(* is the distinguished result Panic, which every caller propagates.       *)
(***************************************************************************)
EXTENDS Integers, Sequences, FiniteSets, TLC

VARIABLES
    listMap,      \* map[string]*ObjectList: file -> decoded "variable" blocks
    remaining,    \* files the range loop of detectVariables has not visited
    order,        \* files in the order the range loop visited them
    curFile,      \* file whose variables are being ranged over, or NoFile
    idx,          \* index of the next hclVariable of curFile
    varMap,       \* map[string]hilast.Variable under construction
    pc,           \* "range" | "done" | "error" | "panic"
    evalResult,   \* last result of evalToString, or NoResult
    config,       \* [IgnoreRule, IgnoreModule]: the suppression config
    modules,      \* source paths of the module blocks of the documents
    detectors,    \* the rule registry, rule names in registration order
    issues,       \* result of Detect, a sequence of issues
    invoked,      \* rule names in the order Detect invoked them
    detected      \* TRUE once Detect has returned

vars == <<listMap, remaining, order, curFile, idx, varMap, pc, evalResult,
          config, modules, detectors, issues, invoked, detected>>

resolveVars == <<listMap, remaining, order, curFile, idx, varMap, pc>>
detectVars == <<config, modules, detectors, issues, invoked, detected>>

----------------------------------------------------------------------------
(* Bounds of the model *)

MaxLen == 2       \* longest slice among the generated defaults
MaxVars == 2      \* most "variable" blocks in one document
MaxModules == 2   \* most module blocks in the documents

----------------------------------------------------------------------------
(* Go values as decoded by hcl.DecodeObject into interface{} *)

GoNil == [kind |-> "Nil"]
GoString(s) == [kind |-> "String", str |-> s]
GoInt(n) == [kind |-> "Int", int |-> n]
GoBool(b) == [kind |-> "Bool", bool |-> b]
GoSlice(es) == [kind |-> "Slice", elems |-> es]
GoMap(m) == [kind |-> "Map", entries |-> m]

(* hilast.Variable values; Panic stands for a run-time panic of the call *)
Panic == [Type |-> "panic"]
StringVar(val) == [Type |-> "TypeString", Value |-> val]
ListVar(vs) == [Type |-> "TypeList", Value |-> vs]
MapVar(m) == [Type |-> "TypeMap", Value |-> m]
ZeroVar == [Type |-> "TypeInvalid", Value |-> GoNil]

EmptyMap == [k \in {} |-> Panic]

----------------------------------------------------------------------------
(* parseVariable *)

(* Variants of the first switch: the declared type is trusted when given; *)
(* every kind is classified as a string                                   *)
KindToTypeHinted(val, varType) ==
    IF varType # "" THEN varType
    ELSE CASE val.kind = "String" -> "string"
           [] val.kind = "Slice" -> "list"
           [] val.kind = "Map" -> "map"
           [] OTHER -> "string"

KindToTypeAlwaysString(val, varType) == "string"

(* The first switch: varType is overwritten from the runtime kind *)
KindToType(val, varType) ==
    CASE val.kind = "String" -> "string"
      [] val.kind = "Slice" -> "list"
      [] val.kind = "Map" -> "map"
      [] OTHER -> "string"

RECURSIVE parseVariable(_, _)

(* for i := 0; i < s.Len(); i++ { variables = append(variables, parse(s[i], "")) } *)
RECURSIVE ParseList(_, _, _)
ParseList(s, i, variables) ==
    IF i > Len(s) THEN ListVar(variables)
    ELSE LET e == parseVariable(s[i], "")
         IN IF e = Panic THEN Panic
            ELSE ParseList(s, i + 1, Append(variables, e))

(* for _, k := range ms.MapKeys() { variables[key] = parse(ms[key], "") } *)
ParseEntries(ms, variables) ==
    IF \E k \in DOMAIN ms : parseVariable(ms[k], "") = Panic THEN Panic
    ELSE [k \in (DOMAIN variables) \cup (DOMAIN ms) |->
            IF k \in DOMAIN ms THEN parseVariable(ms[k], "") ELSE variables[k]]

(* for i := 0; i < s.Len(); i++ { ms := s[i]; ... }  MapKeys panics on a non-map *)
RECURSIVE ParseMaps(_, _, _)
ParseMaps(s, i, variables) ==
    IF i > Len(s) THEN MapVar(variables)
    ELSE IF s[i].kind # "Map" THEN Panic
    ELSE LET merged == ParseEntries(s[i].entries, variables)
         IN IF merged = Panic THEN Panic
            ELSE ParseMaps(s, i + 1, merged)

(* case "list" (and "map", which falls through): s.Index(0) decides the branch. *)
(* Index panics on a map Value and on an empty slice; TypeOf(nil).Kind() panics *)
ParseSequence(val) ==
    IF val.kind # "Slice" THEN Panic
    ELSE IF Len(val.elems) = 0 THEN Panic
    ELSE IF val.elems[1].kind = "Nil" THEN Panic
    ELSE IF val.elems[1].kind = "Map" THEN ParseMaps(val.elems, 1, EmptyMap)
    ELSE ParseList(val.elems, 1, <<>>)

parseVariable(val, varType) ==
    IF val.kind = "Nil" THEN Panic
    ELSE LET t == KindToType(val, varType)
         IN CASE t = "string" -> StringVar(val)
              [] t \in {"map", "list"} -> ParseSequence(val)
              [] OTHER -> ZeroVar

----------------------------------------------------------------------------
(* The inputs: defaults, declarations and documents *)

Files == {"a.tf", "b.tf"}
Keys == {"name", "value"}
Hints == {"string", "list", "map", "", "number"}
NoFile == ""

SeqsUpTo(S, n) == UNION {[1..k -> S] : k \in 0..n}

Scalars == {GoString("a"), GoString("b"), GoInt(12), GoBool(TRUE)}
Leaves == Scalars \cup {GoSlice(<<>>)}
MapsOver(S) == {GoMap(m) : m \in UNION {[K -> S] : K \in SUBSET Keys}}
FlatMaps == MapsOver({GoString("a"), GoString("b"), GoSlice(<<>>)})
Flat == Leaves \cup FlatMaps

(* deeper shapes: nested lists, a map block inside a list, nested map blocks *)
Nested ==
    { GoSlice(<<GoString("a"), GoSlice(<<GoString("b"), GoString("a")>>)>>),
      GoSlice(<<GoString("a"), GoSlice(<<GoMap([k \in {"name"} |-> GoString("b")])>>)>>),
      GoSlice(<<GoSlice(<<GoInt(12)>>), GoString("b")>>),
      GoSlice(<<GoMap([k \in {"name"} |->
                    GoSlice(<<GoMap([j \in {"value"} |-> GoString("a")])>>)])>>),
      GoSlice(<<GoMap([k \in {"name"} |-> GoSlice(<<GoString("a"), GoString("b")>>)]),
                GoMap([k \in Keys |-> GoInt(12)])>>),
      GoMap([k \in {"name"} |-> GoMap([j \in {"value"} |-> GoString("a")])]),
      GoMap([k \in {"name"} |-> GoSlice(<<GoString("a")>>)]) }

Defaults == Flat \cup {GoSlice(es) : es \in SeqsUpTo(Flat, MaxLen)} \cup Nested

hclVariable(name, default, declaredType) ==
    [Name |-> name, Default |-> default, DeclaredType |-> declaredType]

Document(vs) == [malformed |-> FALSE, variables |-> vs]
Malformed == [malformed |-> TRUE, variables |-> <<>>]

(* one document declaring one variable: every default shape, every hint *)
SingleDocs ==
    { [f \in {"a.tf"} |-> Document(<<hclVariable("x", d, h)>>)] :
        d \in Defaults, h \in Hints }

(* several documents, several declarations each, names colliding *)
FewDefaults == {GoNil, GoString("a"), GoSlice(<<GoString("b")>>)}
FewDecls ==
    {hclVariable("x", d, "") : d \in FewDefaults} \cup {hclVariable("y", GoString("b"), "list")}
FewDocuments == {Document(vs) : vs \in SeqsUpTo(FewDecls, MaxVars)} \cup {Malformed}
MultiDocs == UNION {[F -> FewDocuments] : F \in SUBSET Files}

NoExpr == [kind |-> "none", name |-> ""]
NoResult == [expr |-> NoExpr, str |-> GoString(""), err |-> "none", called |-> FALSE]

RuleNames == {"test_rule", "other_rule"}
ModulePaths == {"./tf_aws_ec2_instance", "./tf_aws_elb"}
NoConfig == [IgnoreRule |-> {}, IgnoreModule |-> {}]

InitResolve ==
    /\ listMap \in SingleDocs \cup MultiDocs
    /\ remaining = DOMAIN listMap
    /\ order = <<>>
    /\ curFile = NoFile
    /\ idx = 1
    /\ varMap = EmptyMap
    /\ pc = "range"
    /\ evalResult = NoResult
    /\ config = NoConfig
    /\ modules = <<>>
    /\ detectors = <<"test_rule">>
    /\ issues = <<>>
    /\ invoked = <<>>
    /\ detected = FALSE

----------------------------------------------------------------------------
(* detectVariables, one step per loop iteration *)

Variables(f) == listMap[f].variables

(* the inner loop has run off the end of the current document (or none is open) *)
DocFinished == IF curFile = NoFile THEN TRUE ELSE idx > Len(Variables(curFile))

(* Variant: the key lacks the "var." prefix *)
varNameBare(v) == v.Name

varName(v) == "var." \o v.Name

(* Variant: an existing entry is kept (first write wins) *)
MapAssignKeepFirst(m, key, value) ==
    IF key \in DOMAIN m THEN m
    ELSE [k \in DOMAIN m \cup {key} |-> IF k = key THEN value ELSE m[k]]

(* varMap[key] = value *)
MapAssign(m, key, value) ==
    [k \in DOMAIN m \cup {key} |-> IF k = key THEN value ELSE m[k]]

(* hcl.DecodeObject fails: return nil, err *)
DecodeError(f) ==
    /\ pc = "range" /\ DocFinished
    /\ f \in remaining
    /\ listMap[f].malformed
    /\ pc' = "error"
    /\ varMap' = EmptyMap
    /\ remaining' = remaining \ {f}
    /\ order' = Append(order, f)
    /\ UNCHANGED <<listMap, curFile, idx, evalResult, detectVars>>

(* the range loop picks the next file, in no particular order, and decodes it *)
DecodeObject(f) ==
    /\ pc = "range" /\ DocFinished
    /\ f \in remaining
    /\ ~listMap[f].malformed
    /\ remaining' = remaining \ {f}
    /\ order' = Append(order, f)
    /\ curFile' = f
    /\ idx' = 1
    /\ UNCHANGED <<listMap, varMap, pc, evalResult, detectVars>>

(* if v.Default == nil { continue } *)
SkipNoDefault ==
    /\ pc = "range" /\ ~DocFinished
    /\ Variables(curFile)[idx].Default = GoNil
    /\ idx' = idx + 1
    /\ UNCHANGED <<listMap, remaining, order, curFile, varMap, pc, evalResult, detectVars>>

(* varMap[varName] = parseVariable(v.Default, v.DeclaredType) *)
StoreVariable ==
    /\ pc = "range" /\ ~DocFinished
    /\ LET v == Variables(curFile)[idx]
           r == parseVariable(v.Default, v.DeclaredType)
       IN /\ v.Default # GoNil
          /\ r # Panic
          /\ varMap' = MapAssign(varMap, varName(v), r)
    /\ idx' = idx + 1
    /\ UNCHANGED <<listMap, remaining, order, curFile, pc, evalResult, detectVars>>

(* parseVariable panics; nothing is stored and detectVariables never returns *)
ParsePanic ==
    /\ pc = "range" /\ ~DocFinished
    /\ LET v == Variables(curFile)[idx]
       IN /\ v.Default # GoNil
          /\ parseVariable(v.Default, v.DeclaredType) = Panic
    /\ pc' = "panic"
    /\ UNCHANGED <<listMap, remaining, order, curFile, idx, varMap, evalResult, detectVars>>

(* return varMap, nil *)
Return ==
    /\ pc = "range" /\ DocFinished
    /\ remaining = {}
    /\ pc' = "done"
    /\ UNCHANGED <<listMap, remaining, order, curFile, idx, varMap, evalResult, detectVars>>

detectVariables ==
    \/ \E f \in Files : DecodeError(f)
    \/ \E f \in Files : DecodeObject(f)
    \/ SkipNoDefault
    \/ StoreVariable
    \/ ParsePanic
    \/ Return

----------------------------------------------------------------------------
(* evalToString: the interpolation is parsed by the hil library, then       *)
(* evaluated against the variables of detectVariables                       *)

Exprs ==
    {[kind |-> "ref", name |-> n] : n \in {"var.x", "aws_instance.app"}}
        \cup {[kind |-> "malformed", name |-> ""]}

Failure(e, err) == [expr |-> e, str |-> GoString(""), err |-> err, called |-> TRUE]

evalToString(e, env) ==
    IF e.kind = "malformed" THEN Failure(e, "ParseError")
    ELSE IF e.name \notin DOMAIN env THEN Failure(e, "UnresolvedReferenceError")
    ELSE IF env[e.name].Type \in {"TypeList", "TypeMap"} THEN Failure(e, "TypeError")
    ELSE [expr |-> e, str |-> env[e.name].Value, err |-> "none", called |-> TRUE]

EvalToString(e) ==
    /\ pc = "done"
    /\ evalResult' = evalToString(e, varMap)
    /\ UNCHANGED <<resolveVars, detectVars>>

----------------------------------------------------------------------------
(* Detect: every registered rule that is not ignored runs on the template   *)
(* and on every module whose source is not ignored                          *)

TestIssue == [Type |-> "TEST", Message |-> "this is test method", Line |-> 1, File |-> ""]

(* Variant: the rule reports nothing *)
DetectMethodSilent(acc) == acc

DetectMethodForTest(acc) == Append(acc, TestIssue)

RECURSIVE DetectModules(_, _, _)
DetectModules(acc, mods, i) ==
    IF i > Len(mods) THEN acc
    ELSE IF mods[i] \in config.IgnoreModule THEN DetectModules(acc, mods, i + 1)
    ELSE DetectModules(DetectMethodForTest(acc), mods, i + 1)

RuleIgnored(ruleName, cfg) == ruleName \in cfg.IgnoreRule

RECURSIVE DetectRules(_, _)
DetectRules(acc, i) ==
    IF i > Len(detectors) THEN acc
    ELSE IF RuleIgnored(detectors[i], config) THEN DetectRules(acc, i + 1)
    ELSE DetectRules(
            [issues |-> DetectModules(DetectMethodForTest(acc.issues), modules, 1),
             invoked |-> Append(acc.invoked, detectors[i])], i + 1)

Detect ==
    /\ pc = "done"
    /\ ~detected
    /\ LET r == DetectRules([issues |-> <<>>, invoked |-> <<>>], 1)
       IN /\ issues' = r.issues
          /\ invoked' = r.invoked
    /\ detected' = TRUE
    /\ UNCHANGED <<resolveVars, evalResult, config, modules, detectors>>

Registries == {<<a>> : a \in RuleNames} \cup {<<a, b>> : a, b \in RuleNames}

InitDetect ==
    /\ listMap = [f \in {"text.tf"} |-> Document(<<>>)]
    /\ remaining = {}
    /\ order = <<"text.tf">>
    /\ curFile = "text.tf"
    /\ idx = 1
    /\ varMap = EmptyMap
    /\ pc = "done"
    /\ evalResult = NoResult
    /\ config \in [IgnoreRule : SUBSET RuleNames, IgnoreModule : SUBSET ModulePaths]
    /\ modules \in SeqsUpTo(ModulePaths, MaxModules)
    /\ detectors \in Registries
    /\ issues = <<>>
    /\ invoked = <<>>
    /\ detected = FALSE

----------------------------------------------------------------------------
(* Specifications *)

Init == InitResolve

Next ==
    \/ detectVariables
    \/ \E e \in Exprs : EvalToString(e)

Spec == Init /\ [][Next]_vars

NextDetect == Detect

SpecDetect == InitDetect /\ [][NextDetect]_vars

----------------------------------------------------------------------------
(* Vocabulary of the properties *)

(* the declaration the inner loop has just handled *)
Handled == pc \in {"range", "done"} /\ curFile # NoFile /\ idx > 1
HandledVar == Variables(curFile)[idx - 1]

(* the declaration whose parseVariable call panicked *)
Faulted == pc = "panic"
FaultedVar == Variables(curFile)[idx]

AllDecls == UNION { {Variables(f)[i] : i \in 1..Len(Variables(f))} : f \in DOMAIN listMap }
DefaultsOf(n) == {v.Default : v \in {w \in AllDecls : w.Name = n /\ w.Default # GoNil}}

IsSeqOfMaps(val) ==
    /\ val.kind = "Slice" /\ Len(val.elems) > 0
    /\ \A i \in 1..Len(val.elems) : val.elems[i].kind = "Map"

IsPlainList(val) ==
    /\ val.kind = "Slice" /\ Len(val.elems) > 0
    /\ val.elems[1].kind \notin {"Map", "Nil"}

(* the last element of a sequence of maps that defines key k *)
LastDefining(elems, k) ==
    CHOOSE i \in 1..Len(elems) :
        /\ k \in DOMAIN elems[i].entries
        /\ \A j \in (i + 1)..Len(elems) : k \notin DOMAIN elems[j].entries

(* decimal text of a number, "true"/"false" of a boolean *)
Digits == <<"0", "1", "2", "3", "4", "5", "6", "7", "8", "9">>
RECURSIVE ItoA(_)
ItoA(n) == IF n < 10 THEN Digits[n + 1] ELSE ItoA(n \div 10) \o Digits[(n % 10) + 1]
Stringify(val) ==
    CASE val.kind = "Int" -> ItoA(val.int)
      [] val.kind = "Bool" -> (IF val.bool THEN "true" ELSE "false")
      [] OTHER -> val.str

----------------------------------------------------------------------------
(* C1: a default that is scalar text resolves, under "var."+name, to a      *)
(* String variable holding exactly that text, whatever declared type hint   *)
(* accompanies it; such a default never faults.                             *)
C1_ScalarTextIsString ==
    /\ Handled /\ HandledVar.Default.kind = "String" =>
          /\ ("var." \o HandledVar.Name) \in DOMAIN varMap
          /\ varMap["var." \o HandledVar.Name] =
                [Type |-> "TypeString", Value |-> GoString(HandledVar.Default.str)]
    /\ Faulted => FaultedVar.Default.kind # "String"

C1_Witness ==
    /\ Handled
    /\ HandledVar.Default = GoString("a")
    /\ HandledVar.DeclaredType = "list"
    /\ varMap["var.x"] = [Type |-> "TypeString", Value |-> GoString("a")]

(* C2: an empty-sequence default resolves to an empty List and never faults *)
C2_EmptySequenceIsEmptyList ==
    /\ Faulted => FaultedVar.Default # GoSlice(<<>>)
    /\ Handled /\ HandledVar.Default = GoSlice(<<>>) =>
          varMap["var." \o HandledVar.Name] = ListVar(<<>>)

(* C3: a non-empty sequence of maps resolves to a Map whose keys are the    *)
(* union of the elements' keys, each value being the coercion of the value  *)
(* in the last element that defines the key.                                *)
SeqOfMapsResult(val) ==
    MapVar([k \in UNION {DOMAIN val.elems[i].entries : i \in 1..Len(val.elems)} |->
               parseVariable(val.elems[LastDefining(val.elems, k)].entries[k], "")])

C3_SequenceOfMapsMergesLastWins ==
    /\ Faulted => ~IsSeqOfMaps(FaultedVar.Default)
    /\ Handled /\ IsSeqOfMaps(HandledVar.Default) =>
          varMap["var." \o HandledVar.Name] = SeqOfMapsResult(HandledVar.Default)

(* what the code does establish for C3: whenever the call returns *)
C3_MergeWhenNoFault ==
    Handled /\ IsSeqOfMaps(HandledVar.Default) =>
        varMap["var." \o HandledVar.Name] = SeqOfMapsResult(HandledVar.Default)

(* C4: a non-empty sequence whose first element is not a map resolves to a  *)
(* List of the same length, element i being the coercion of input element i *)
PlainListResult(val) ==
    ListVar([i \in 1..Len(val.elems) |-> parseVariable(val.elems[i], "")])

C4_PlainListPreservesOrder ==
    /\ Faulted => ~IsPlainList(FaultedVar.Default)
    /\ Handled /\ IsPlainList(HandledVar.Default) =>
          varMap["var." \o HandledVar.Name] = PlainListResult(HandledVar.Default)

(* what the code does establish for C4: whenever the call returns *)
C4_OrderWhenNoFault ==
    Handled /\ IsPlainList(HandledVar.Default) =>
        varMap["var." \o HandledVar.Name] = PlainListResult(HandledVar.Default)

(* C5: a default that is itself a map (not wrapped in a sequence) resolves  *)
(* to a Map with the same keys and coerced values, without faulting.        *)
C5_BareMapIsMap ==
    /\ Faulted => FaultedVar.Default.kind # "Map"
    /\ Handled /\ HandledVar.Default.kind = "Map" =>
          LET m == HandledVar.Default.entries
          IN varMap["var." \o HandledVar.Name] =
                MapVar([k \in DOMAIN m |-> parseVariable(m[k], "")])

(* C6: once detectVariables has returned without error, the keys of the     *)
(* environment are exactly "var."+name of the variables declared with a     *)
(* default; an error comes only from a document that fails to decode.       *)
C6_EnvKeysAreDefaultedVariables ==
    /\ pc = "done" =>
          DOMAIN varMap = {"var." \o v.Name : v \in {w \in AllDecls : w.Default # GoNil}}
    /\ pc = "error" => \E f \in DOMAIN listMap : listMap[f].malformed

C6_Witness ==
    /\ pc = "done"
    /\ \E v \in AllDecls : v.Name = "x"
    /\ DefaultsOf("x") = {}
    /\ DOMAIN varMap = {"var.y"}

(* C7: Detect invokes exactly the registered rules that are not ignored,    *)
(* whatever modules are ignored; with every rule ignored there is no issue; *)
(* a rule that is not ignored reports at least once, and less than without  *)
(* suppression when a declared module is ignored.                           *)
Registered == {detectors[i] : i \in 1..Len(detectors)}
Unsuppressed == Len(detectors) * (1 + Len(modules))

C7_RuleSuppressionOnly ==
    detected =>
        /\ {invoked[i] : i \in 1..Len(invoked)} = Registered \ config.IgnoreRule
        /\ (Registered \subseteq config.IgnoreRule => issues = <<>>)
        /\ (~(Registered \subseteq config.IgnoreRule) => Len(issues) >= 1)
        /\ ((~(Registered \subseteq config.IgnoreRule)
                /\ \E j \in 1..Len(modules) : modules[j] \in config.IgnoreModule)
              => Len(issues) < Unsuppressed)

C7_Witness ==
    /\ detected
    /\ detectors = <<"test_rule">>
    /\ modules = <<"./tf_aws_ec2_instance">>
    /\ config = [IgnoreRule |-> {}, IgnoreModule |-> {"./tf_aws_ec2_instance"}]
    /\ Len(issues) = 1

(* C8: evaluating a reference to var.x yields the text, without error,      *)
(* exactly when the environment holds a String for it; a List or Map gives  *)
(* TypeError and no string; a name that is absent, as when x is declared    *)
(* only without default, gives UnresolvedReferenceError.                    *)
C8_EvalToString ==
    evalResult.called /\ evalResult.expr.kind = "ref" =>
        LET n == evalResult.expr.name
            ds == DefaultsOf("x")
        IN /\ (evalResult.err = "none") <=>
                  (n \in DOMAIN varMap /\ varMap[n].Type = "TypeString")
           /\ evalResult.err = "none" => evalResult.str = varMap[n].Value
           /\ evalResult.err # "none" => evalResult.str = GoString("")
           /\ n \notin DOMAIN varMap => evalResult.err = "UnresolvedReferenceError"
           /\ n = "var.x" =>
                 /\ ds = {} => evalResult.err = "UnresolvedReferenceError"
                 /\ (ds # {} /\ \A d \in ds : d.kind = "String") =>
                        evalResult.err = "none" /\ evalResult.str \in ds
                 /\ (ds # {} /\ \A d \in ds : d.kind = "Slice") =>
                        evalResult.err = "TypeError"
           /\ n # "var.x" => evalResult.err = "UnresolvedReferenceError"

C8_Witness ==
    /\ evalResult.called
    /\ evalResult.expr.name = "var.x"
    /\ evalResult.err = "TypeError"
    /\ DefaultsOf("x") = {GoSlice(<<GoString("b")>>)}

(* C9: a default that is neither text, sequence nor map (a number, a        *)
(* boolean) resolves to a String whose value is the stringified default.    *)
C9_NonTextIsStringified ==
    Handled /\ HandledVar.Default.kind \in {"Int", "Bool"} =>
        varMap["var." \o HandledVar.Name] =
            [Type |-> "TypeString", Value |-> GoString(Stringify(HandledVar.Default))]

(* C10: when several documents give the same variable a default, the entry  *)
(* is the coercion of the default met last in the iteration order; a later  *)
(* declaration without default leaves the entry alone.                      *)
DeclNames == {v.Name : v \in AllDecls}
HasDefaultFor(f, n) ==
    \E i \in 1..Len(Variables(f)) :
        Variables(f)[i].Name = n /\ Variables(f)[i].Default # GoNil
LastDeclIn(f, n) ==
    LET i == CHOOSE i \in 1..Len(Variables(f)) :
                /\ Variables(f)[i].Name = n /\ Variables(f)[i].Default # GoNil
                /\ \A j \in (i + 1)..Len(Variables(f)) :
                      ~(Variables(f)[j].Name = n /\ Variables(f)[j].Default # GoNil)
    IN Variables(f)[i]
LastFileFor(n) ==
    order[CHOOSE i \in 1..Len(order) :
            /\ HasDefaultFor(order[i], n)
            /\ \A j \in (i + 1)..Len(order) : ~HasDefaultFor(order[j], n)]

C10_LastDocumentWins ==
    pc = "done" =>
        \A n \in DeclNames :
            (\E f \in DOMAIN listMap : HasDefaultFor(f, n)) =>
                LET v == LastDeclIn(LastFileFor(n), n)
                IN /\ ("var." \o n) \in DOMAIN varMap
                   /\ varMap["var." \o n] = parseVariable(v.Default, v.DeclaredType)

(* two documents default x differently: the entry follows the visiting order, *)
(* and the second document, which re-declares x without default, removes nothing *)
C10_Witness ==
    /\ pc = "done"
    /\ order = <<"b.tf", "a.tf">>
    /\ Variables("b.tf") = <<hclVariable("x", GoString("a"), "")>>
    /\ Variables("a.tf") = <<hclVariable("x", GoSlice(<<GoString("b")>>), ""),
                             hclVariable("x", GoNil, "")>>
    /\ varMap["var.x"] = ListVar(<<StringVar(GoString("b"))>>)

====
